---- MODULE Spec2Model ----
(***************************************************************************)
(* Model of pkg/commands/command_update.go: the batch driver cmdUpdate and *)
(* the per-package update updatePackage of the akamai cli.                 *)
(*                                                                         *)
(* Every external call of updatePackage (findExec, findPackageDir,         *)
(* git.PlainOpen, Worktree, Head, Pull, CommitObject,                      *)
(* installPackageDependencies) is one step of the model; what the call     *)
(* returns is chosen by the environment.                                   *)
(***************************************************************************)
EXTENDS Integers, Sequences, FiniteSets, TLC

\* ------------------------------------------------------------------ bounds
MaxArgs == 2          \* positional arguments of one invocation
MaxGroups == 2        \* command groups returned by the registry
MaxGroupLen == 2      \* commands in one group
MaxHash == 1          \* commits a remote can add to one repository
MaxInvocations == 2   \* invocations of the update command, one after another

\* ------------------------------------------------------------ input domains
Names == {"help", "Help", "widget"}

\* strings.ToLower on command names
ToLower(n) == CASE n = "Help" -> "help"
                [] n = "HELP" -> "help"
                [] n = "Widget" -> "widget"
                [] OTHER -> n

\* ---------------------------------------------------------------- errors
NoErr == "<nil>"
alreadyUptoDate == "already up-to-date"
objectNotFound == "object not found"
authRequired == "authentication required"
VcsErrors == {alreadyUptoDate, objectNotFound, authRequired}

\* err != nil && err.Error() != alreadyUptoDate && err.Error() != objectNotFound
IsFatalAny(e) == e /= NoErr

IsFatalNever(e) == FALSE

IsFatal(e) == e /= NoErr /\ e /= alreadyUptoDate /\ e /= objectNotFound

\* cli.Exit(msg, 1) and the nil error
ExitError(m) == [msg |-> m, code |-> 1]
NilError == [msg |-> "", code |-> 0]
MsgNotFound == "Command not found"
MsgNotInstalled == "unable to update, was it installed using akamai install?"
MsgRepoIssue == "unable to update, there an issue with the package repo"
MsgFetch == "Unable to fetch updates"
MsgDeps == "Unable to update command"

\* ----------------------------------------------------------------- paths
\* A path is the sequence of its components; "/" is <<"/">>, "" is <<>>.
Root == <<"/">>
NoDir == <<>>

\* filepath.Dir
Dir(p) == IF Len(p) <= 1 THEN Root ELSE SubSeq(p, 1, Len(p) - 1)

Dispatcher == <<"/", "usr", "bin", "env">>
Interpreter == <<"/", "usr", "lib", "node">>
Bin(c) == <<"/", "src", c, "bin", c>>
PackageRoot(c) == <<"/", "src", c>>
RepoDirs == {PackageRoot(c) : c \in Names}

\* the path chains findExec can resolve a command to
ExecChains(c) == { <<>>, <<Bin(c)>>, <<Interpreter, Bin(c)>>,
                   <<Dispatcher, Interpreter, Bin(c)>> }

\* findPackageDir: walk upward until a directory holds a repository marker
RECURSIVE findPackageDir(_, _)
findPackageDir(dir, markers) ==
    IF dir \in markers THEN dir
    ELSE IF Len(dir) <= 1 THEN NoDir
    ELSE findPackageDir(Dir(dir), markers)

\* the directory the repository search starts from (lines 76-80)
SearchStartFirst(exec) == Dir(exec[1])

SearchStart(exec) == IF Len(exec) = 1 THEN Dir(exec[1])
                     ELSE Dir(exec[Len(exec)])

\* ------------------------------------------------------------- registry
SeqsUpTo(S, n) == UNION {[1..k -> S] : k \in 0..n}
NonEmptySeqsUpTo(S, n) == UNION {[1..k -> S] : k \in 1..n}

RECURSIVE FlattenLastFirst(_)
FlattenLastFirst(groups) ==
    IF groups = <<>> THEN <<>>
    ELSE FlattenLastFirst(Tail(groups)) \o Head(groups)

\* for _, cmd := range getCommands() { for _, command := range cmd.Commands
RECURSIVE Flatten(_)
Flatten(groups) ==
    IF groups = <<>> THEN <<>>
    ELSE Head(groups) \o Flatten(Tail(groups))

Injective(s) == \A i, j \in DOMAIN s : s[i] = s[j] => i = j

\* what getCommands / getBuiltinCommands can return: groups of one or more
\* commands, no command listed twice
CommandTables ==
    {t \in SeqsUpTo(NonEmptySeqsUpTo(Names, MaxGroupLen), MaxGroups) :
        Injective(Flatten(t))}

VARIABLES
    invocation,   \* how many times cmdUpdate has been invoked
    args,         \* c.Args().Slice()
    force,        \* c.Bool("force")
    cancelled,    \* c.Context is cancelled or expired
    bpc,          \* position of cmdUpdate: "start", "loop", "call", "returned", "panicked"
    builtinCmds,  \* the keys of the builtinCmds map
    commands,     \* what getCommands() returned
    queue,        \* the names the loops of cmdUpdate range over, in order
    idx,          \* index in queue of the current iteration
    status,       \* per position of queue: "pending", "skipped", "running", "ok", "failed", "panicked"
    exitErr,      \* what cmdUpdate returned
    pc,           \* position of the running updatePackage
    cmd,          \* its parameter cmd
    exec,         \* result of findExec
    repoDir,
    refBeforePull,  \* hash of the head read before the pull
    ref,          \* hash of the head read after the pull, or NilRef
    err,          \* what the last updatePackage returned
    outcome,      \* "none", "UpToDate", "Updated" of the running / last updatePackage
    steps,        \* calls the running / last updatePackage made, in order
    head,         \* head hash of every package repository on disk
    stale         \* repositories whose head advanced in a run whose install failed

vars == <<invocation, args, force, cancelled, bpc, builtinCmds, commands, queue,
          idx, status, exitErr, pc, cmd, exec, repoDir, refBeforePull, ref, err,
          outcome, steps, head, stale>>

\* the nil *plumbing.Reference that repo.Head() returns with an error
NilRef == -1

Init ==
    /\ invocation = 1
    /\ commands = <<>>
    /\ stale = {}
    /\ args \in SeqsUpTo(Names, MaxArgs)
    /\ force \in BOOLEAN
    /\ cancelled = FALSE
    /\ bpc = "start"
    /\ builtinCmds = {}
    /\ queue = <<>>
    /\ idx = 0
    /\ status = <<>>
    /\ exitErr = NilError
    /\ pc = "idle"
    /\ cmd = ""
    /\ exec = <<>>
    /\ repoDir = NoDir
    /\ refBeforePull = NilRef
    /\ ref = NilRef
    /\ err = NilError
    /\ outcome = "none"
    /\ steps = <<>>
    /\ head = [d \in RepoDirs |-> 0]

\* one call made by updatePackage for the package at position idx: dir and
\* flag are the call's arguments where the model records them, e the error
\* the call returned
Call(op, dir, flag, e) ==
    [pos |-> idx, op |-> op, dir |-> dir, flag |-> flag, err |-> e]
Step(op, e) == Call(op, NoDir, FALSE, e)
Spinner(op) == Call(op, NoDir, FALSE, NoErr)

\* ------------------------------------------------------------- cmdUpdate
\* c.Args().Present()
PresentNever(a) == FALSE

Present(a) == Len(a) > 0

\* the builtinCmds map built by lines 35-38: the lower-cased name of the first
\* command of every built-in group
BuiltinKeys(table) == {ToLower(table[g][1]) : g \in DOMAIN table}

\* _, ok := builtinCmds[command.Name]
IsBuiltin(name) == name \in builtinCmds

\* if err := updatePackage(...); err != nil { return err }
AbortsNever(e) == FALSE

Aborts(e) == e /= NilError

\* lines 34-40: no arguments, read the two command tables
CmdUpdateAll ==
    /\ bpc = "start"
    /\ ~Present(args)
    /\ \E builtins \in CommandTables, table \in CommandTables :
          /\ builtinCmds' = BuiltinKeys(builtins)
          /\ commands' = table
          /\ queue' = Flatten(table)
          /\ status' = [i \in 1..Len(Flatten(table)) |-> "pending"]
    /\ idx' = 1
    /\ bpc' = "loop"
    /\ UNCHANGED <<invocation, stale, args, force, cancelled, exitErr, pc, cmd, exec, repoDir,
                   refBeforePull, ref, err, outcome, steps, head>>

\* line 53: arguments given, range over them
CmdUpdateSelected ==
    /\ bpc = "start"
    /\ Present(args)
    /\ queue' = args
    /\ status' = [i \in 1..Len(args) |-> "pending"]
    /\ idx' = 1
    /\ bpc' = "loop"
    /\ UNCHANGED <<invocation, commands, stale, args, force, cancelled, builtinCmds, exitErr, pc, cmd, exec,
                   repoDir, refBeforePull, ref, err, outcome, steps, head>>

\* line 42: an installed command found in builtinCmds is passed over
LoopSkip ==
    /\ bpc = "loop"
    /\ idx <= Len(queue)
    /\ ~Present(args)
    /\ IsBuiltin(queue[idx])
    /\ status' = [status EXCEPT ![idx] = "skipped"]
    /\ idx' = idx + 1
    /\ UNCHANGED <<invocation, commands, stale, args, force, cancelled, bpc, builtinCmds, queue, exitErr, pc,
                   cmd, exec, repoDir, refBeforePull, ref, err, outcome, steps, head>>

\* lines 43 and 54: call updatePackage(c.Context, name, c.Bool("force"))
LoopCall ==
    /\ bpc = "loop"
    /\ idx <= Len(queue)
    /\ Present(args) \/ ~IsBuiltin(queue[idx])
    /\ bpc' = "call"
    /\ status' = [status EXCEPT ![idx] = "running"]
    /\ pc' = "findExec"
    /\ cmd' = queue[idx]
    /\ exec' = <<>>
    /\ repoDir' = NoDir
    /\ refBeforePull' = NilRef
    /\ ref' = NilRef
    /\ err' = NilError
    /\ outcome' = "none"
    /\ steps' = <<>>
    /\ UNCHANGED <<invocation, commands, stale, args, force, cancelled, builtinCmds, queue, idx, exitErr, head>>

\* lines 43-45 and 54-56: updatePackage returned
LoopReturn ==
    /\ bpc = "call"
    /\ pc = "return"
    /\ pc' = "idle"
    /\ IF Aborts(err)
       THEN /\ status' = [status EXCEPT ![idx] = "failed"]
            /\ exitErr' = err
            /\ bpc' = "returned"
            /\ idx' = idx
       ELSE /\ status' = [status EXCEPT ![idx] = IF err = NilError THEN "ok" ELSE "failed"]
            /\ exitErr' = exitErr
            /\ bpc' = "loop"
            /\ idx' = idx + 1
    /\ UNCHANGED <<invocation, commands, stale, args, force, cancelled, builtinCmds, queue, cmd, exec, repoDir,
                   refBeforePull, ref, err, outcome, steps, head>>

\* lines 50 and 59: the loops are over, return nil
LoopDone ==
    /\ bpc = "loop"
    /\ idx > Len(queue)
    /\ bpc' = "returned"
    /\ exitErr' = NilError
    /\ UNCHANGED <<invocation, commands, stale, args, force, cancelled, builtinCmds, queue, idx, status, pc, cmd,
                   exec, repoDir, refBeforePull, ref, err, outcome, steps, head>>

\* the environment cancels c.Context while the batch runs; cmdUpdate and
\* updatePackage never read ctx.Done() or ctx.Err()
Cancel ==
    /\ ~cancelled
    /\ bpc \in {"loop", "call"}
    /\ cancelled' = TRUE
    /\ UNCHANGED <<invocation, commands, stale, args, force, bpc, builtinCmds, queue, idx, status, exitErr, pc,
                   cmd, exec, repoDir, refBeforePull, ref, err, outcome, steps, head>>

\* ---------------------------------------------------------- updatePackage
Running(at) == bpc = "call" /\ pc = at

\* return e
Return(e) == pc' = "return" /\ err' = e

\* exec, err := findExec(ctx, cmd); if err != nil
ResolveFailedNever(e) == FALSE

ResolveFailed(e) == e /= NoErr

\* lines 65-70: resolve the command to its path chain
FindExec ==
    /\ Running("findExec")
    /\ \E e \in {NoErr, "not found"} :
       \E chain \in (IF e = NoErr THEN ExecChains(cmd) ELSE {<<>>}) :
          /\ exec' = chain
          /\ steps' = Append(steps, Step("findExec", e))
          /\ IF ResolveFailed(e)
             THEN Return(ExitError(MsgNotFound))
             ELSE pc' = "locate" /\ err' = err
    /\ UNCHANGED <<invocation, commands, stale, args, force, cancelled, bpc, builtinCmds, queue, idx, status,
                   exitErr, cmd, repoDir, refBeforePull, ref, outcome, head>>

\* lines 72-87: start the spinner and search the package repository
Locate ==
    /\ Running("locate")
    /\ \E markers \in SUBSET RepoDirs :
         LET found == IF Len(exec) >= 1
                      THEN findPackageDir(SearchStart(exec), markers)
                      ELSE NoDir
             searched == IF Len(exec) >= 1
                         THEN <<Call("findPackageDir", SearchStart(exec), FALSE, NoErr)>>
                         ELSE <<>>
         IN  /\ repoDir' = found
             /\ IF found = NoDir
                THEN /\ steps' = Append(steps, Spinner("StartSpinner")) \o searched
                                    \o <<Spinner("StopSpinnerFail")>>
                     /\ Return(ExitError(MsgNotInstalled))
                ELSE /\ steps' = Append(steps, Spinner("StartSpinner")) \o searched
                     /\ pc' = "open"
                     /\ err' = err
    /\ UNCHANGED <<invocation, commands, stale, args, force, cancelled, bpc, builtinCmds, queue, idx, status,
                   exitErr, cmd, exec, refBeforePull, ref, outcome, head>>

\* if err != nil after git.PlainOpen and after repo.Worktree()
OpenFailedNever(e) == FALSE

OpenFailed(e) == e /= NoErr

\* lines 89-93: repo, err := git.PlainOpen(repoDir)
PlainOpen ==
    /\ Running("open")
    /\ \E e \in {NoErr, "repository does not exist"} :
          /\ steps' = Append(steps, Call("PlainOpen", repoDir, FALSE, e))
          /\ IF OpenFailed(e)
             THEN Return(ExitError(MsgRepoIssue))
             ELSE pc' = "worktree" /\ err' = err
    /\ UNCHANGED <<invocation, commands, stale, args, force, cancelled, bpc, builtinCmds, queue, idx, status,
                   exitErr, cmd, exec, repoDir, refBeforePull, ref, outcome, head>>

\* lines 95-99: w, err := repo.Worktree()
Worktree ==
    /\ Running("worktree")
    /\ \E e \in {NoErr, "worktree not available in a bare repository"} :
          /\ steps' = Append(steps, Step("Worktree", e))
          /\ IF OpenFailed(e)
             THEN Return(ExitError(MsgRepoIssue))
             ELSE pc' = "headBefore" /\ err' = err
    /\ UNCHANGED <<invocation, commands, stale, args, force, cancelled, bpc, builtinCmds, queue, idx, status,
                   exitErr, cmd, exec, repoDir, refBeforePull, ref, outcome, head>>

\* if errBeforePull != nil
HeadFailedTolerant(e) == IsFatal(e)

HeadFailed(e) == e /= NoErr

\* lines 102-110: refBeforePull, errBeforePull := repo.Head()
HeadBefore ==
    /\ Running("headBefore")
    /\ \E e \in {NoErr} \cup VcsErrors :
          IF HeadFailed(e)
          THEN /\ steps' = steps \o <<Step("Head", e), Spinner("StopSpinnerFail")>>
               /\ refBeforePull' = NilRef
               /\ Return(ExitError(MsgFetch))
          ELSE /\ steps' = Append(steps, Step("Head", e))
               /\ refBeforePull' = head[repoDir]
               /\ pc' = "pull"
               /\ err' = err
    /\ UNCHANGED <<invocation, commands, stale, args, force, cancelled, bpc, builtinCmds, queue, idx, status,
                   exitErr, cmd, exec, repoDir, ref, outcome, head>>

\* lines 112-117: err = w.Pull(...); the remote may or may not hold a new
\* commit (advance, recorded as the call's flag), and the pull may or may not
\* report an error
Pull ==
    /\ Running("pull")
    /\ \E e \in {NoErr} \cup VcsErrors, advance \in BOOLEAN :
          /\ advance => head[repoDir] < MaxHash
          /\ head' = IF advance
                     THEN [head EXCEPT ![repoDir] = head[repoDir] + 1]
                     ELSE head
          /\ IF IsFatal(e)
             THEN /\ steps' = steps \o <<Call("Pull", NoDir, advance, e),
                                         Spinner("StopSpinnerFail")>>
                  /\ Return(ExitError(MsgFetch))
             ELSE /\ steps' = Append(steps, Call("Pull", NoDir, advance, e))
                  /\ pc' = "headAfter"
                  /\ err' = err
    /\ UNCHANGED <<invocation, commands, stale, args, force, cancelled, bpc, builtinCmds, queue, idx, status,
                   exitErr, cmd, exec, repoDir, refBeforePull, ref, outcome>>

\* lines 119-124: ref, err := repo.Head(); on an error ref is nil
HeadAfter ==
    /\ Running("headAfter")
    /\ \E e \in {NoErr} \cup VcsErrors :
          /\ ref' = IF e = NoErr THEN head[repoDir] ELSE NilRef
          /\ IF IsFatal(e)
             THEN /\ steps' = steps \o <<Step("Head", e), Spinner("StopSpinnerFail")>>
                  /\ Return(ExitError(MsgFetch))
             ELSE /\ steps' = Append(steps, Step("Head", e))
                  /\ pc' = "classify"
                  /\ err' = err
    /\ UNCHANGED <<invocation, commands, stale, args, force, cancelled, bpc, builtinCmds, queue, idx, status,
                   exitErr, cmd, exec, repoDir, refBeforePull, outcome, head>>

\* refBeforePull.Hash() != ref.Hash()
HashDiffersAlways(before, after) == TRUE

HashDiffers(before, after) == before /= after

\* lines 126, 136-141: compare the two hashes; ref.Hash() on a nil ref is a
\* nil pointer dereference, which ends the process
Classify ==
    /\ Running("classify")
    /\ IF ref = NilRef
       THEN /\ pc' = "panic"
            /\ bpc' = "panicked"
            /\ status' = [status EXCEPT ![idx] = "panicked"]
            /\ UNCHANGED <<err, outcome, steps>>
       ELSE /\ UNCHANGED <<bpc, status>>
            /\ IF HashDiffers(refBeforePull, ref)
               THEN /\ pc' = "commitObject"
                    /\ UNCHANGED <<err, outcome, steps>>
               ELSE /\ steps' = Append(steps, Spinner("StopSpinnerWarnOk"))
                    /\ outcome' = "UpToDate"
                    /\ Return(NilError)
    /\ UNCHANGED <<invocation, commands, stale, args, force, cancelled, builtinCmds, queue, idx, exitErr, cmd,
                   exec, repoDir, refBeforePull, ref, head>>

\* lines 127-135, 143-144: commit, err := repo.CommitObject(ref.Hash())
CommitObject ==
    /\ Running("commitObject")
    /\ \E e \in {NoErr} \cup VcsErrors :
          IF IsFatal(e)
          THEN /\ steps' = steps \o <<Step("CommitObject", e), Spinner("StopSpinnerFail")>>
               /\ outcome' = outcome
               /\ Return(ExitError(MsgFetch))
          ELSE /\ steps' = steps \o <<Step("CommitObject", e), Spinner("StopSpinnerOk")>>
               /\ outcome' = "Updated"
               /\ pc' = "install"
               /\ err' = err
    /\ UNCHANGED <<invocation, commands, stale, args, force, cancelled, bpc, builtinCmds, queue, idx, status,
                   exitErr, cmd, exec, repoDir, refBeforePull, ref, head>>

\* the arguments of installPackageDependencies(ctx, repoDir, forceBinary)
InstallCallNoForce(dir, forceBinary, e) ==
    Call("installPackageDependencies", dir, FALSE, e)

InstallCall(dir, forceBinary, e) ==
    Call("installPackageDependencies", dir, forceBinary, e)

\* lines 146-151: if !installPackageDependencies(ctx, repoDir, forceBinary)
Install ==
    /\ Running("install")
    /\ \E ok \in BOOLEAN :
          /\ steps' = Append(steps,
                 InstallCall(repoDir, force, IF ok THEN NoErr ELSE "false"))
          /\ Return(IF ok THEN NilError ELSE ExitError(MsgDeps))
          /\ stale' = IF ok THEN stale ELSE stale \cup {repoDir}
    /\ UNCHANGED <<invocation, commands, args, force, cancelled, bpc, builtinCmds, queue, idx, status,
                   exitErr, cmd, exec, repoDir, refBeforePull, ref, outcome, head>>

Next ==
    \/ CmdUpdateAll
    \/ CmdUpdateSelected
    \/ LoopSkip
    \/ LoopCall
    \/ LoopReturn
    \/ LoopDone
    \/ Cancel
    \/ FindExec
    \/ Locate
    \/ PlainOpen
    \/ Worktree
    \/ HeadBefore
    \/ Pull
    \/ HeadAfter
    \/ Classify
    \/ CommitObject
    \/ Install

Spec == Init /\ [][Next]_vars

\* after cmdUpdate returned an error the same command line is run again: a
\* new process, whose only inheritance is the repositories on disk
Reinvoke ==
    /\ bpc = "returned" /\ exitErr /= NilError
    /\ invocation < MaxInvocations
    /\ invocation' = invocation + 1
    /\ args' = args
    /\ force' = force
    /\ cancelled' = FALSE
    /\ bpc' = "start"
    /\ builtinCmds' = {}
    /\ commands' = <<>>
    /\ queue' = <<>>
    /\ idx' = 0
    /\ status' = <<>>
    /\ exitErr' = NilError
    /\ pc' = "idle"
    /\ cmd' = ""
    /\ exec' = <<>>
    /\ repoDir' = NoDir
    /\ refBeforePull' = NilRef
    /\ ref' = NilRef
    /\ err' = NilError
    /\ outcome' = "none"
    /\ steps' = <<>>
    /\ UNCHANGED <<head, stale>>

\* "akamai update <name>..." run, and run again after a failure
NextRerun ==
    \/ CmdUpdateSelected
    \/ LoopCall
    \/ LoopReturn
    \/ LoopDone
    \/ FindExec
    \/ Locate
    \/ PlainOpen
    \/ Worktree
    \/ HeadBefore
    \/ Pull
    \/ HeadAfter
    \/ Classify
    \/ CommitObject
    \/ Install
    \/ Reinvoke

InitRerun == Init /\ args /= <<>>

SpecRerun == InitRerun /\ [][NextRerun]_vars

TypeOK ==
    /\ bpc \in {"start", "loop", "call", "returned", "panicked"}
    /\ idx \in 0..(Len(queue) + 1)
    /\ outcome \in {"none", "UpToDate", "Updated"}
    /\ \A d \in RepoDirs : head[d] \in 0..MaxHash

\* ------------------------------------------------------------ properties
\* the calls of one kind the running / last updatePackage made
StepsOf(op) == SelectSeq(steps, LAMBDA s : s.op = op)
Called(op) == Len(StepsOf(op))

\* the Benign VCS Error Class
BenignClass == {alreadyUptoDate, objectNotFound}

\* updatePackage has returned (to cmdUpdate, or cmdUpdate has moved on)
Returned == pc \in {"return", "idle"} /\ steps /= <<>>

\* both heads were read
BothRead == refBeforePull /= NilRef /\ ref /= NilRef

\* C1: a run whose head hash is the same before and after the pull ends
\* UpToDate, returns nil and never calls installPackageDependencies, whatever
\* the pull returned; outcome Updated needs two different hashes.
C1_SameHashIsUpToDate ==
    /\ (BothRead /\ refBeforePull = ref) =>
          /\ Called("installPackageDependencies") = 0
          /\ Called("CommitObject") = 0
          /\ outcome /= "Updated"
          /\ pc \in {"classify", "return", "idle"}
          /\ Returned => outcome = "UpToDate" /\ err = NilError
    /\ outcome = "Updated" => BothRead /\ refBeforePull /= ref

C1_Witness ==
    /\ pc = "return"
    /\ BothRead /\ refBeforePull = ref
    /\ outcome = "UpToDate"
    /\ Called("Pull") = 1 /\ StepsOf("Pull")[1].err = NoErr

\* C2: a pull that returns an error of the Benign VCS Error Class does not end
\* the run: the head is read again, and when that read succeeds the outcome
\* follows from comparing the two hashes.
C2_BenignPullProceeds ==
    (Called("Pull") = 1 /\ StepsOf("Pull")[1].err \in BenignClass) =>
        /\ pc \in {"headAfter", "classify", "commitObject", "install",
                    "return", "idle", "panic"}
        /\ pc /= "headAfter" => Called("Head") = 2
        /\ (Called("Head") = 2 /\ StepsOf("Head")[2].err = NoErr) =>
              /\ BothRead
              /\ pc \in {"classify", "commitObject", "install", "return", "idle"}
              /\ Returned => (outcome = "UpToDate" <=> refBeforePull = ref)
              /\ pc \in {"commitObject", "install"} => refBeforePull /= ref

C2_Witness ==
    /\ pc = "return"
    /\ Called("Pull") = 1 /\ StepsOf("Pull")[1].err = objectNotFound
    /\ Called("Head") = 2
    /\ outcome = "Updated"

\* C3: a pull that returns an error outside the Benign VCS Error Class ends
\* the run with the fetch failure (exit code 1); the head is not read again
\* and installPackageDependencies is not called.
C3_FatalPullFails ==
    (Called("Pull") = 1 /\ StepsOf("Pull")[1].err \notin BenignClass \cup {NoErr}) =>
        /\ pc \in {"return", "idle"}
        /\ err = ExitError(MsgFetch)
        /\ err.code = 1
        /\ Called("Head") = 1
        /\ Called("CommitObject") = 0
        /\ Called("installPackageDependencies") = 0
        /\ outcome = "none"
        /\ pc = "idle" => status[idx] = "failed" /\ exitErr = err

C3_Witness ==
    /\ pc = "idle"
    /\ Called("Pull") = 1 /\ StepsOf("Pull")[1].err = authRequired
    /\ status[idx] = "failed"

\* C4: in both modes, when the package at position k is the first to fail,
\* every earlier package was processed to its end (or passed over as a
\* built-in), no call of any kind is made for a later package, and cmdUpdate
\* returns the error of package k.
C4_FailFast ==
    /\ \A s \in DOMAIN steps :
          /\ steps[s].pos <= idx
          /\ status[steps[s].pos] /= "pending"
          /\ bpc \in {"call", "panicked"} => steps[s].pos = idx
    /\ \A j \in DOMAIN status : j > idx => status[j] = "pending"
    /\ \A k \in DOMAIN status :
          status[k] = "failed" =>
            /\ bpc = "returned"
            /\ idx = k
            /\ \A j \in 1..(k - 1) : status[j] \in {"ok", "skipped"}
            /\ exitErr = err
            /\ exitErr /= NilError /\ exitErr.code = 1

C4_Witness ==
    /\ args = <<>>
    /\ Len(queue) = 3
    /\ status = <<"ok", "failed", "pending">>
    /\ bpc = "returned"

C4_WitnessSelected ==
    /\ args /= <<>>
    /\ status = <<"failed", "pending">>
    /\ bpc = "returned"

\* C5: in update-all mode updatePackage is never called for an installed
\* command whose name equals a built-in name when case is ignored.
C5_BuiltinsExcluded ==
    args = <<>> =>
        \A i \in DOMAIN status :
            ToLower(queue[i]) \in builtinCmds => status[i] \in {"pending", "skipped"}

\* the last call of the run
LastStep == steps[Len(steps)]

C7_NotFoundTouchesNothing ==
    (steps /= <<>> /\ steps[1].err /= NoErr) =>
        /\ steps[1].op = "findExec"
        /\ Len(steps) = 1
        /\ pc \in {"return", "idle"}
        /\ err = ExitError(MsgNotFound) /\ err.code = 1
        /\ outcome = "none"

C7_Witness ==
    /\ pc = "return"
    /\ steps /= <<>> /\ steps[1].op = "findExec" /\ steps[1].err /= NoErr

\* C8: the repository search starts at the directory of the only segment of
\* a one-segment chain and at the directory of the last segment of a longer
\* one, never at the directory of an earlier segment.
C8_SearchStartsAtLast ==
    \A s \in DOMAIN steps :
        steps[s].op = "findPackageDir" =>
            /\ Len(exec) >= 1
            /\ steps[s].dir = Dir(exec[Len(exec)])
            /\ \A i \in 1..(Len(exec) - 1) : steps[s].dir /= Dir(exec[i])

C8_Witness ==
    /\ Len(exec) = 3
    /\ Called("findPackageDir") = 1
    /\ StepsOf("findPackageDir")[1].dir = <<"/", "src", "widget", "bin">>
    /\ repoDir = PackageRoot("widget")

\* C9: once the context is cancelled, no further per-package update begins.
C9_NoStartAfterCancel ==
    [][cancelled => ~(pc /= "findExec" /\ pc' = "findExec")]_vars

\* C10: with no arguments cmdUpdate ranges over the registry, with arguments
\* over exactly the arguments; it returns exit code 1 exactly when a processed
\* package failed, and nil when every package it had to update ended
\* UpToDate, or Updated with a successful install.
C10_ExitStatus ==
    /\ (bpc \in {"loop", "call", "returned"} /\ args /= <<>>) =>
          /\ queue = args
          /\ \A i \in DOMAIN status : status[i] /= "skipped"
    /\ (bpc \in {"loop", "call", "returned"} /\ args = <<>>) =>
          \A i \in DOMAIN status : status[i] = "skipped" => queue[i] \in builtinCmds
    /\ (pc = "return" /\ err = NilError) =>
          \/ outcome = "UpToDate"
          \/ /\ outcome = "Updated"
             /\ LastStep.op = "installPackageDependencies" /\ LastStep.err = NoErr
    /\ \A i \in DOMAIN status :
          status[i] = "ok" => (i < idx /\ ((bpc = "loop" /\ i = idx - 1) => err = NilError))
    /\ bpc = "returned" =>
          /\ exitErr.code \in {0, 1}
          /\ exitErr.code = 1 <=> \E i \in DOMAIN status : status[i] = "failed"
          /\ exitErr = NilError <=>
                \A i \in DOMAIN status : status[i] \in {"ok", "skipped"}
          /\ (exitErr = NilError /\ args /= <<>>) =>
                \A i \in DOMAIN status : status[i] = "ok"

C10_Witness ==
    /\ bpc = "returned"
    /\ args /= <<>> /\ Len(args) = 2
    /\ status = <<"ok", "ok">>
    /\ exitErr = NilError
    /\ outcome = "Updated"

\* the error returned by the k-th call of one kind
ErrOf(op, k) == StepsOf(op)[k].err

C12_SnapshotAfterTolerance ==
    Called("Head") = 2 =>
        /\ ErrOf("Head", 2) \in BenignClass =>
              /\ pc \in {"classify", "commitObject", "install", "return", "idle"}
              /\ bpc /= "panicked"
              /\ Returned => outcome \in {"UpToDate", "Updated"}
        /\ ErrOf("Head", 2) \notin BenignClass \cup {NoErr} =>
              /\ pc \in {"return", "idle"}
              /\ err = ExitError(MsgFetch)
              /\ Called("installPackageDependencies") = 0

\* C13: when no repository root is found (an empty path chain included), or
\* the directory cannot be opened, or its worktree cannot be obtained, the run
\* ends with a failure of exit code 1 and makes no head read, pull or install.
NoGitWork ==
    /\ Called("Head") = 0
    /\ Called("Pull") = 0
    /\ Called("CommitObject") = 0
    /\ Called("installPackageDependencies") = 0
    /\ refBeforePull = NilRef /\ ref = NilRef
    /\ outcome = "none"

C13_NoRepositoryFails ==
    /\ (Called("StartSpinner") = 1 /\ repoDir = NoDir) =>
          /\ pc \in {"return", "idle"}
          /\ err = ExitError(MsgNotInstalled) /\ err.code = 1
          /\ Called("PlainOpen") = 0 /\ Called("Worktree") = 0
          /\ NoGitWork
    /\ (Called("PlainOpen") = 1 /\ ErrOf("PlainOpen", 1) /= NoErr) =>
          /\ pc \in {"return", "idle"}
          /\ err = ExitError(MsgRepoIssue) /\ err.code = 1
          /\ Called("Worktree") = 0
          /\ NoGitWork
    /\ (Called("Worktree") = 1 /\ ErrOf("Worktree", 1) /= NoErr) =>
          /\ pc \in {"return", "idle"}
          /\ err = ExitError(MsgRepoIssue) /\ err.code = 1
          /\ NoGitWork
    /\ Called("Head") > 0 =>
          /\ repoDir /= NoDir
          /\ Called("PlainOpen") = 1 /\ ErrOf("PlainOpen", 1) = NoErr
          /\ Called("Worktree") = 1 /\ ErrOf("Worktree", 1) = NoErr

C13_Witness ==
    /\ pc = "return"
    /\ steps /= <<>> /\ steps[1].op = "findExec" /\ steps[1].err = NoErr
    /\ exec = <<>>
    /\ err = ExitError(MsgNotInstalled)

C13_WitnessWorktree ==
    /\ pc = "return"
    /\ Called("Worktree") = 1 /\ ErrOf("Worktree", 1) /= NoErr

\* the index in steps of the k-th call of one kind
IndexOf(op, k) ==
    CHOOSE i \in DOMAIN steps :
        /\ steps[i].op = op
        /\ Cardinality({j \in 1..i : steps[j].op = op}) = k

\* C14: when the first head read fails, with whatever error, the run ends with
\* the fetch failure and the pull is not attempted; the pull is called at most
\* once in a run, and only after a first head read that succeeded.
C14_PullNeedsSnapshot ==
    /\ (Called("Head") >= 1 /\ ErrOf("Head", 1) /= NoErr) =>
          /\ pc \in {"return", "idle"}
          /\ err = ExitError(MsgFetch)
          /\ Called("Head") = 1
          /\ Called("Pull") = 0
          /\ refBeforePull = NilRef
    /\ Called("Pull") <= 1
    /\ Called("Pull") = 1 =>
          /\ Called("Head") >= 1
          /\ ErrOf("Head", 1) = NoErr
          /\ IndexOf("Head", 1) < IndexOf("Pull", 1)
          /\ refBeforePull /= NilRef

C14_Witness ==
    /\ pc = "return"
    /\ Called("Head") = 1 /\ ErrOf("Head", 1) = alreadyUptoDate
    /\ err = ExitError(MsgFetch)

\* the number of commands in the groups before group g
RECURSIVE Offset(_)
Offset(g) == IF g <= 1 THEN 0 ELSE Offset(g - 1) + Len(commands[g - 1])

\* C15: the updates of a batch never interleave: a package is started only
\* when every package before it ended in success (or was passed over as a
\* built-in), and the packages are taken in argument order, or in the
\* registry's order, group by group and entry by entry.
C15_Sequential ==
    /\ Cardinality({i \in DOMAIN status : status[i] = "running"}) <= 1
    /\ bpc = "call" =>
          /\ status[idx] = "running"
          /\ cmd = queue[idx]
          /\ \A j \in 1..(idx - 1) : status[j] \in {"ok", "skipped"}
          /\ \A j \in (idx + 1)..Len(queue) : status[j] = "pending"
          /\ \A s \in DOMAIN steps : steps[s].pos = idx
    /\ (bpc /= "start" /\ args /= <<>>) => queue = args
    /\ (bpc /= "start" /\ args = <<>>) =>
          /\ Len(queue) = Offset(Len(commands) + 1)
          /\ \A g \in DOMAIN commands : \A c \in DOMAIN commands[g] :
                queue[Offset(g) + c] = commands[g][c]

C15_Witness ==
    /\ args = <<>>
    /\ Len(commands) = 2 /\ Len(commands[1]) = 2
    /\ bpc = "call" /\ idx = 3 /\ pc = "pull"
    /\ status = <<"ok", "ok", "running">>

\* the positions of the batch whose update was started
Started == {i \in DOMAIN status : status[i] \notin {"pending", "skipped"}}

\* C16, in every state: when the batch aborted on package k, the repository
\* of every later package that was not also processed earlier has the head it
\* had before the batch; a repository no started package owns is untouched.
C16_Untouched ==
    /\ \A k \in DOMAIN status :
          status[k] = "failed" =>
            \A j \in (k + 1)..Len(queue) :
                (\A i \in 1..k : queue[i] /= queue[j]) =>
                    head[PackageRoot(queue[j])] = 0
    /\ \A d \in RepoDirs :
          (\A i \in Started : PackageRoot(queue[i]) /= d) => head[d] = 0

\* C16, in every step: no head goes back, and the return of cmdUpdate changes
\* no head.
C16_NoRevert ==
    /\ \A d \in RepoDirs : head'[d] >= head[d]
    /\ bpc' = "returned" => head' = head

\* C16: a batch that aborts on a failure rolls nothing back and leaves the
\* packages it did not process untouched.
C16_NoRollback == []C16_Untouched /\ [][C16_NoRevert]_vars

C16_Witness ==
    /\ bpc = "returned"
    /\ status = <<"ok", "failed", "pending">>
    /\ head[PackageRoot(queue[1])] = 1
    /\ head[PackageRoot(queue[3])] = 0

\* C17: a run that started the spinner stops it exactly once before it
\* returns, and with StopSpinnerOk only when the head hash changed.
Stops == Called("StopSpinnerOk") + Called("StopSpinnerWarnOk")
            + Called("StopSpinnerFail")

C17_SpinnerPaired ==
    /\ (pc = "return" /\ Called("StartSpinner") = 1) => Stops = 1
    /\ Called("StopSpinnerOk") >= 1 => BothRead /\ refBeforePull /= ref

\* C18: after a run advanced a repository's head and failed in the install,
\* a later run for that repository whose pull brings no new commit reads the
\* same hash twice, ends UpToDate with nil, and does not call the install.
C18_NoInstallRetry ==
    (/\ repoDir /= NoDir /\ repoDir \in stale
     /\ Called("Pull") = 1 /\ ~StepsOf("Pull")[1].flag
     /\ Called("Head") = 2 /\ ErrOf("Head", 2) = NoErr
     /\ Returned) =>
        /\ refBeforePull = ref
        /\ outcome = "UpToDate"
        /\ err = NilError
        /\ Called("installPackageDependencies") = 0
        /\ invocation > 1

C18_Witness ==
    /\ invocation = 2
    /\ pc = "return"
    /\ repoDir \in stale
    /\ Called("Pull") = 1 /\ ~StepsOf("Pull")[1].flag
    /\ outcome = "UpToDate" /\ err = NilError
    /\ head[repoDir] = 1

\* C19: when nothing more can happen, cmdUpdate has returned: every update it
\* started ended in success or failure, and it started at most one update
\* per position of the batch.
C19_EveryRunTerminates ==
    (~ENABLED Next) =>
        /\ bpc = "returned"
        /\ \A i \in DOMAIN status : status[i] \in {"ok", "failed", "skipped", "pending"}
        /\ Cardinality(Started) <= Len(queue)

====
